---- MODULE Spec2Model ----
(***************************************************************************)
(* A model of the quack OS-abstraction layer: src-tauri/src/platform.rs    *)
(* (process runner, path resolver, window helpers) and the Tauri commands  *)
(* of src-tauri/src/commands.rs that forward to it.                        *)
(*                                                                         *)
(* Three specifications share the variables:                               *)
(*   SpecWindow  the five window commands over the window registry,        *)
(*   SpecProc    spawn / run / quit_app and the child processes,           *)
(*   SpecPaths   get_paths over identifiers and base directories.          *)
(***************************************************************************)
EXTENDS Integers, Sequences, FiniteSets, TLC

VARIABLES
    windows,     \* the toolkit's window registry: label -> Some(window state) or Absent
    toolkitUp,   \* whether the toolkit currently accepts property mutations
    last,        \* the last window command: its payload, its result, what preceded it
    build,       \* the target OS the binary was built for (cfg(target_os))
    app,         \* the hosting process: "running", "exit_requested", "terminated"
    exitStatus,  \* the status the process ended with, None while it lives
    quit,        \* the quit_app invocation: invoked, returned, the status asked for
    calls,       \* the spawn and run invocations so far, in order of invocation
    env,         \* what the OS gives the path resolver: identifier and base directories
    paths        \* the last result of get_paths, None before the first call

vars == <<windows, toolkitUp, last, build, app, exitStatus, quit, calls, env, paths>>

\* ------------------------------------------------------------------ values

\* Option<T>: None is the empty tuple, Some(x) a one-element tuple.
None == <<>>
Some(x) == <<x>>

\* Result<T, String>: the error carries its text as a sequence of fragments.
Ok(x) == <<"Ok", x>>
Err(msg) == <<"Err", msg>>
IsOk(r) == r[1] = "Ok"
IsErr(r) == r[1] = "Err"
Unit == "()"

\* ------------------------------------------------------------------ windows

Labels == {"main", "aux"}
Absent == None

Sizes == {<<800, 600>>, <<1024, 768>>}
Positions == {<<0, 0>>, <<10, 20>>}

WindowState ==
    [always_on_top : BOOLEAN, decorations : BOOLEAN, shadow : BOOLEAN,
     size : Sizes, position : Positions]

\* The toolkit's error, as text.
ToolkitError == "failed to send message to the webview"

\* WebviewWindow::set_* of the toolkit: the handle's property takes the value, or
\* the toolkit rejects the mutation and nothing changes.
toolkit_set(ws, w, prop, v, up) ==
    IF up
      THEN [res |-> Ok(Unit), ws |-> [ws EXCEPT ![w] = Some([ws[w][1] EXCEPT ![prop] = v])]]
      ELSE [res |-> Err(ToolkitError), ws |-> ws]

\* .map_err(|e| PlatformError::Msg(format!("<op> failed: {e}")))
map_err_msg(r, prefix) ==
    IF IsErr(r.res) THEN [r EXCEPT !.res = Err(<<prefix, r.res[2]>>)] ELSE r

\* A faulty variant: the flag is flipped instead of set.
set_always_on_top_toggling(ws, w, enabled, up) ==
    map_err_msg(toolkit_set(ws, w, "always_on_top", ~ws[w][1].always_on_top, up),
                "set_always_on_top failed: ")

set_always_on_top(ws, w, enabled, up) ==
    map_err_msg(toolkit_set(ws, w, "always_on_top", enabled, up), "set_always_on_top failed: ")

\* A faulty variant: a copy of set_shadow that still sets the shadow.
set_decorations_setting_shadow(ws, w, enabled, up) ==
    map_err_msg(toolkit_set(ws, w, "shadow", enabled, up), "set_decorations failed: ")

set_decorations(ws, w, enabled, up) ==
    map_err_msg(toolkit_set(ws, w, "decorations", enabled, up), "set_decorations failed: ")

set_shadow(ws, w, enabled, up) ==
    map_err_msg(toolkit_set(ws, w, "shadow", enabled, up), "set_shadow failed: ")

\* A faulty variant: resizing also puts the window back at the origin.
resize_resetting_position(ws, w, width, height, up) ==
    LET r == toolkit_set(ws, w, "size", <<width, height>>, up)
    IN  map_err_msg(IF IsOk(r.res) THEN toolkit_set(r.ws, w, "position", <<0, 0>>, up) ELSE r,
                    "resize failed: ")

resize(ws, w, width, height, up) ==
    map_err_msg(toolkit_set(ws, w, "size", <<width, height>>, up), "resize failed: ")

move_window(ws, w, x, y, up) ==
    map_err_msg(toolkit_set(ws, w, "position", <<x, y>>, up), "move failed: ")

\* A faulty variant: the label is ignored and "main" is always looked up.
get_window_ignoring_label(ws, label) ==
    IF ws["main"] # Absent THEN Ok("main") ELSE Err(<<"window '", "main", "' not found">>)

\* commands.rs get_window: the label defaults to "main"; the handle is the label.
get_window(ws, label) ==
    LET lbl == IF label = None THEN "main" ELSE label[1]
    IN  IF lbl \in DOMAIN ws /\ ws[lbl] # Absent
          THEN Ok(lbl)
          ELSE Err(<<"window '", lbl, "' not found">>)

\* `let w = get_window(..)?; platform::f(&w, ..).map_err(|e| e.to_string())`
window_set_always_on_top(ws, payload, up) ==
    LET w == get_window(ws, payload.label)
    IN  IF IsErr(w) THEN [res |-> w, ws |-> ws]
        ELSE set_always_on_top(ws, w[2], payload.value[1], up)

window_set_decorations(ws, payload, up) ==
    LET w == get_window(ws, payload.label)
    IN  IF IsErr(w) THEN [res |-> w, ws |-> ws]
        ELSE set_decorations(ws, w[2], payload.value[1], up)

window_set_shadow(ws, payload, up) ==
    LET w == get_window(ws, payload.label)
    IN  IF IsErr(w) THEN [res |-> w, ws |-> ws]
        ELSE set_shadow(ws, w[2], payload.value[1], up)

window_resize(ws, payload, up) ==
    LET w == get_window(ws, payload.label)
    IN  IF IsErr(w) THEN [res |-> w, ws |-> ws]
        ELSE resize(ws, w[2], payload.value[1], payload.value[2], up)

window_move(ws, payload, up) ==
    LET w == get_window(ws, payload.label)
    IN  IF IsErr(w) THEN [res |-> w, ws |-> ws]
        ELSE move_window(ws, w[2], payload.value[1], payload.value[2], up)

\* The five window commands main.rs registers, and the property each is named for.
WindowOps ==
    {"window_set_always_on_top", "window_set_decorations", "window_set_shadow",
     "window_resize", "window_move"}

PropertyOf(op) ==
    CASE op = "window_set_always_on_top" -> "always_on_top"
      [] op = "window_set_decorations" -> "decorations"
      [] op = "window_set_shadow" -> "shadow"
      [] op = "window_resize" -> "size"
      [] op = "window_move" -> "position"

\* The payloads the frontend can send: WindowFlag, WindowSize, WindowPosition.
\* A flag is carried as a one-element tuple, a size or position as a pair.
LabelArgs == {None} \cup {Some(l) : l \in Labels}

ValuesOf(op) ==
    CASE op = "window_resize" -> Sizes
      [] op = "window_move" -> Positions
      [] OTHER -> {<<b>> : b \in BOOLEAN}

Payloads(op) == [label : LabelArgs, value : ValuesOf(op)]

\* The invoke handler's dispatch on the command name.
Invoke(op, ws, payload, up) ==
    CASE op = "window_set_always_on_top" -> window_set_always_on_top(ws, payload, up)
      [] op = "window_set_decorations" -> window_set_decorations(ws, payload, up)
      [] op = "window_set_shadow" -> window_set_shadow(ws, payload, up)
      [] op = "window_resize" -> window_resize(ws, payload, up)
      [] op = "window_move" -> window_move(ws, payload, up)

Alive == app # "terminated"

NoCall == [op |-> "none", label |-> None, value |-> <<>>, res |-> Ok(Unit), prev |-> "none"]

\* What preceded a command, as far as the claims need it: the very same call
\* ("same"), a successful command for another property of the same window (that
\* command's name), or anything else ("other").
Target(label) == IF label = None THEN "main" ELSE label[1]

Preceding(op, payload) ==
    IF last.op \in WindowOps /\ IsOk(last.res) /\ Target(last.label) = Target(payload.label)
      THEN IF last.op = op
             THEN IF last.label = payload.label /\ last.value = payload.value
                    THEN "same" ELSE "other"
             ELSE last.op
      ELSE "other"

\* One window command, from invoke to its result.
WindowCommand(op) ==
    /\ Alive
    /\ \E payload \in Payloads(op) :
         LET r == Invoke(op, windows, payload, toolkitUp)
         IN  /\ windows' = r.ws
             /\ last' = [op |-> op, label |-> payload.label, value |-> payload.value,
                         res |-> r.res, prev |-> Preceding(op, payload)]
    /\ UNCHANGED <<toolkitUp, build, app, exitStatus, quit, calls, env, paths>>

\* The toolkit, outside the core, opens a window ...
WindowOpened ==
    /\ Alive
    /\ \E l \in Labels, s \in WindowState :
         /\ windows[l] = Absent
         /\ windows' = [windows EXCEPT ![l] = Some(s)]
    /\ last' = NoCall
    /\ UNCHANGED <<toolkitUp, build, app, exitStatus, quit, calls, env, paths>>

\* ... closes one ...
WindowClosed ==
    /\ Alive
    /\ \E l \in Labels :
         /\ windows[l] # Absent
         /\ windows' = [windows EXCEPT ![l] = Absent]
    /\ last' = NoCall
    /\ UNCHANGED <<toolkitUp, build, app, exitStatus, quit, calls, env, paths>>

\* ... and starts or stops accepting mutations.
ToolkitFlips ==
    /\ Alive
    /\ toolkitUp' = ~toolkitUp
    /\ last' = NoCall
    /\ UNCHANGED <<windows, build, app, exitStatus, quit, calls, env, paths>>

\* ------------------------------------------------------------------ processes

Platforms == {"Windows", "Linux", "MacOs", "Unknown"}

\* The invocations of spawn and run a behaviour may hold.
MaxCalls == 2

\* The command interpreter chosen at build time: `cmd /C` on Windows, `sh -c` elsewhere.
Interpreter(b) == IF b = "Windows" THEN <<"cmd", "/C">> ELSE <<"sh", "-c">>

\* What the OS says when it cannot start the interpreter.
OsError(b) == <<Interpreter(b)[1], ": No such file or directory (os error 2)">>

\* PlatformError::Io's Display, "IO error: {0}", through e.to_string().
io_error_to_string(e) == <<"IO error: ", e>>

\* ExitStatus::code(): on Unix Some(code) or None when a signal ended the child;
\* on Windows always Some, the DWORD exit code taken as an i32.
ExitCodes(b) ==
    IF b = "Windows" THEN {Some(0), Some(3), Some(-1)} ELSE {Some(0), Some(3), None}

\* What the child wrote, as bytes: "hi\n" on stdout, or a lone 0xFF on stderr.
Captured == {[stdout |-> <<104, 105, 10>>, stderr |-> <<>>],
             [stdout |-> <<>>, stderr |-> <<255>>]}

\* std::process::Output of a child that has exited.
Outputs(b) == {[code |-> c, stdout |-> o.stdout, stderr |-> o.stderr] :
                 c \in ExitCodes(b), o \in Captured}

\* String::from_utf8_lossy on such bytes: ASCII is kept, an invalid byte becomes U+FFFD.
from_utf8_lossy(bytes) ==
    [k \in 1..Len(bytes) |-> IF bytes[k] < 128 THEN bytes[k] ELSE 65533]

\* platform.rs spawn_shell: `Command::new(..).spawn()?; Ok(())`.  `launched` is
\* the OS's answer to process creation.
spawn_shell(b, launched) ==
    IF launched THEN [res |-> Ok(Unit), child |-> "running"]
    ELSE [res |-> Err(OsError(b)), child |-> "none"]

\* A faulty variant: the result is held back until the child has exited.
spawn_waiting(b, launched) ==
    LET r == spawn_shell(b, launched)
    IN  [kind |-> "spawn", child |-> r.child, exit |-> None, produced |-> 0,
         result |-> IF IsOk(r.res) THEN None ELSE Some(Err(io_error_to_string(r.res[2])))]

\* commands.rs spawn: the invocation as the caller sees it once the call is over.
spawn(b, launched) ==
    LET r == spawn_shell(b, launched)
    IN  [kind |-> "spawn", child |-> r.child, exit |-> None, produced |-> 0,
         result |-> Some(IF IsOk(r.res) THEN r.res ELSE Err(io_error_to_string(r.res[2])))]

\* A faulty variant: a failed launch is reported as a captured run with code 127.
run_launch_as_exit_127(b, launched) ==
    IF launched
      THEN [kind |-> "run", child |-> "running", exit |-> None, produced |-> 0, result |-> None]
      ELSE [kind |-> "run", child |-> "none", exit |-> None, produced |-> 1,
            result |-> Some(Ok([status |-> 127, stdout |-> <<>>, stderr |-> <<>>]))]

\* run / run_shell_capture up to `.output()?`: a failed launch returns the error
\* at once, a launched child leaves the caller blocked in output().
run_launch(b, launched) ==
    IF launched
      THEN [kind |-> "run", child |-> "running", exit |-> None, produced |-> 0, result |-> None]
      ELSE [kind |-> "run", child |-> "none", exit |-> None, produced |-> 0,
            result |-> Some(Err(io_error_to_string(OsError(b))))]

\* A faulty variant: an unknown exit status falls back to the default, 0.
run_shell_capture_defaulting(output) ==
    Ok(<<IF output.code = None THEN 0 ELSE output.code[1],
         from_utf8_lossy(output.stdout), from_utf8_lossy(output.stderr)>>)

\* platform.rs run_shell_capture after output() has returned.
run_shell_capture(output) ==
    LET code == IF output.code = None THEN -1 ELSE output.code[1]
    IN  Ok(<<code, from_utf8_lossy(output.stdout), from_utf8_lossy(output.stderr)>>)

\* commands.rs run: `.map(|(status, stdout, stderr)| RunOutput { .. })`.
run(output) ==
    LET r == run_shell_capture(output)
    IN  Ok([status |-> r[2][1], stdout |-> r[2][2], stderr |-> r[2][3]])

\* Whether an operation of the core started or completed after quit_app was invoked.
NoteOperation == quit' = [quit EXCEPT !.later = quit.invoked]

\* The spawn command, whole: the interpreter is started (or not) and the call returns.
Spawn ==
    /\ Alive
    /\ Len(calls) < MaxCalls
    /\ \E launched \in BOOLEAN : calls' = Append(calls, spawn(build, launched))
    /\ NoteOperation
    /\ UNCHANGED <<windows, toolkitUp, last, build, app, exitStatus, env, paths>>

\* The run command up to the point where it blocks in output().
RunStarts ==
    /\ Alive
    /\ Len(calls) < MaxCalls
    /\ \E launched \in BOOLEAN : calls' = Append(calls, run_launch(build, launched))
    /\ NoteOperation
    /\ UNCHANGED <<windows, toolkitUp, last, build, app, exitStatus, env, paths>>

\* A child exits, by itself or by a signal; the OS keeps its status and output.
\* Children are not tied to the life of the application.
ChildExits(i) ==
    /\ calls[i].child = "running"
    /\ \E o \in Outputs(build) :
         calls' = [calls EXCEPT ![i].child = "exited", ![i].exit = Some(o)]
    /\ UNCHANGED <<windows, toolkitUp, last, build, app, exitStatus, quit, env, paths>>

\* A faulty variant: output() does not wait for the child.
RunReturns_not_waiting(i) ==
    /\ Alive
    /\ calls[i].kind = "run"
    /\ calls[i].child # "none"
    /\ calls[i].result = None
    /\ LET o == IF calls[i].exit = None
                   THEN [code |-> None, stdout |-> <<>>, stderr |-> <<>>]
                   ELSE calls[i].exit[1]
       IN  calls' = [calls EXCEPT ![i].result = Some(run(o)), ![i].produced = @ + 1]
    /\ NoteOperation
    /\ UNCHANGED <<windows, toolkitUp, last, build, app, exitStatus, env, paths>>

\* output() returns once the child has exited, and run hands its RunOutput back.
RunReturns(i) ==
    /\ Alive
    /\ calls[i].kind = "run"
    /\ calls[i].child = "exited"
    /\ calls[i].result = None
    /\ calls' = [calls EXCEPT ![i].result = Some(run(calls[i].exit[1])), ![i].produced = @ + 1]
    /\ NoteOperation
    /\ UNCHANGED <<windows, toolkitUp, last, build, app, exitStatus, env, paths>>

\* A faulty variant: the application exits with a failure status.
QuitApp_failing ==
    /\ Alive
    /\ ~quit.invoked
    /\ \/ /\ app' = "terminated"
          /\ exitStatus' = Some(1)
          /\ quit' = [invoked |-> TRUE, returned |-> FALSE, later |-> FALSE, code |-> Some(1)]
       \/ /\ app' = "exit_requested"
          /\ exitStatus' = exitStatus
          /\ quit' = [invoked |-> TRUE, returned |-> TRUE, later |-> FALSE, code |-> Some(1)]
    /\ UNCHANGED <<windows, toolkitUp, last, build, calls, env, paths>>

\* commands.rs quit_app: `app.exit(0);`.  AppHandle::exit hands the exit request
\* to the event loop and returns; when the request cannot be delivered it ends
\* the process itself, inside the call.
QuitApp ==
    /\ Alive
    /\ ~quit.invoked
    /\ \/ /\ app' = "terminated"
          /\ exitStatus' = Some(0)
          /\ quit' = [invoked |-> TRUE, returned |-> FALSE, later |-> FALSE, code |-> Some(0)]
       \/ /\ app' = "exit_requested"
          /\ exitStatus' = exitStatus
          /\ quit' = [invoked |-> TRUE, returned |-> TRUE, later |-> FALSE, code |-> Some(0)]
    /\ UNCHANGED <<windows, toolkitUp, last, build, calls, env, paths>>

\* The event loop of main.rs's `.run(..)` takes the exit request and ends the
\* process with the requested status.
EventLoopExits ==
    /\ app = "exit_requested"
    /\ app' = "terminated"
    /\ exitStatus' = quit.code
    /\ UNCHANGED <<windows, toolkitUp, last, build, quit, calls, env, paths>>

\* ------------------------------------------------------------------ paths

\* A path or an identifier is a sequence of characters; "/" separates segments.
\* dirs::config_dir() / dirs::data_dir() follow the POSIX conventions here
\* ($XDG_CONFIG_HOME or ~/.config, $XDG_DATA_HOME or ~/.local/share).
IdChars == {"a", ".", "/"}

\* The longest identifier tried.
MaxIdLen == 3

Identifiers == UNION {[1..n -> IdChars] : n \in 0..MaxIdLen}

ConfigBases == {None, Some(<<"/", "h", "/", "c">>), Some(<<"/", "h", "/", "c", "/">>)}
DataBases == {None, Some(<<"/", "h", "/", "d">>)}

Envs == [identifier : Identifiers, config_dir : ConfigBases, data_dir : DataBases]

\* The environment of the other two specifications: a reverse-domain identifier.
HostEnv == [identifier |-> <<"a", ".", "a">>,
            config_dir |-> Some(<<"/", "h", "/", "c">>),
            data_dir |-> Some(<<"/", "h", "/", "d">>)]

is_absolute(path) == Len(path) > 0 /\ path[1] = "/"

\* Path::join, that is PathBuf::push: an absolute `path` replaces the base;
\* otherwise it is appended, after a separator unless the base ends with one.
join(base, path) ==
    IF is_absolute(path) THEN path
    ELSE IF Len(base) > 0 /\ base[Len(base)] # "/" THEN base \o <<"/">> \o path
    ELSE base \o path

\* Path::components without the root: the text between separators, empty
\* pieces and "." pieces dropped.
RECURSIVE Split(_, _, _)
Split(path, k, cur) ==
    LET done == IF cur = <<>> \/ cur = <<".">> THEN <<>> ELSE <<cur>>
    IN  IF k > Len(path) THEN done
        ELSE IF path[k] = "/" THEN done \o Split(path, k + 1, <<>>)
        ELSE Split(path, k + 1, Append(cur, path[k]))

Segments(path) == Split(path, 1, <<>>)

\* platform.rs app_config_dir
app_config_dir(e, identifier) ==
    IF e.config_dir = None THEN Err(<<"Could not resolve config directory">>)
    ELSE Ok(join(e.config_dir[1], identifier))

\* A faulty variant: a copy of app_config_dir that still asks for the config directory.
app_data_dir_from_config(e, identifier) ==
    IF e.config_dir = None THEN Err(<<"Could not resolve data directory">>)
    ELSE Ok(join(e.config_dir[1], identifier))

\* platform.rs app_data_dir
app_data_dir(e, identifier) ==
    IF e.data_dir = None THEN Err(<<"Could not resolve data directory">>)
    ELSE Ok(join(e.data_dir[1], identifier))

\* commands.rs get_paths: both directories, or the first error.  Display of a
\* path made of these characters is the path's text.
get_paths(e) ==
    LET identifier == e.identifier
        config_dir == app_config_dir(e, identifier)
        data_dir == app_data_dir(e, identifier)
    IN  IF IsErr(config_dir) THEN config_dir
        ELSE IF IsErr(data_dir) THEN data_dir
        ELSE Ok([identifier |-> identifier, config_dir |-> config_dir[2],
                 data_dir |-> data_dir[2]])

GetPaths ==
    /\ Alive
    /\ paths' = Some(get_paths(env))
    /\ UNCHANGED <<windows, toolkitUp, last, build, app, exitStatus, quit, calls, env>>

\* ------------------------------------------------------------------ init

\* The process right after main() has built the application: the primary window
\* exists, nothing has been invoked.
InitCore ==
    /\ \E s \in WindowState : windows = [l \in Labels |-> IF l = "main" THEN Some(s) ELSE Absent]
    /\ toolkitUp = TRUE
    /\ last = NoCall
    /\ app = "running"
    /\ exitStatus = None
    /\ quit = [invoked |-> FALSE, returned |-> FALSE, later |-> FALSE, code |-> None]
    /\ calls = <<>>
    /\ paths = None

\* The window commands do not branch on the target OS.
InitWindow == InitCore /\ build = "Linux" /\ env = HostEnv

NextWindow ==
    \/ WindowCommand("window_set_always_on_top")
    \/ WindowCommand("window_set_decorations")
    \/ WindowCommand("window_set_shadow")
    \/ WindowCommand("window_resize")
    \/ WindowCommand("window_move")
    \/ WindowOpened
    \/ WindowClosed
    \/ ToolkitFlips

SpecWindow == InitWindow /\ [][NextWindow]_vars

\* Each build targets one OS.
InitProc ==
    /\ InitCore
    /\ windows["main"][1] = [always_on_top |-> FALSE, decorations |-> TRUE, shadow |-> TRUE,
                              size |-> <<800, 600>>, position |-> <<0, 0>>]
    /\ build \in Platforms
    /\ env = HostEnv

NextProc ==
    \/ Spawn
    \/ RunStarts
    \/ \E i \in DOMAIN calls : ChildExits(i)
    \/ \E i \in DOMAIN calls : RunReturns(i)
    \/ QuitApp
    \/ EventLoopExits

SpecProc == InitProc /\ [][NextProc]_vars

\* The path resolver under every identifier and every answer of the OS.
InitPaths ==
    /\ InitCore
    /\ windows["main"][1] = [always_on_top |-> FALSE, decorations |-> TRUE, shadow |-> TRUE,
                              size |-> <<800, 600>>, position |-> <<0, 0>>]
    /\ build = "Linux"
    /\ env \in Envs

NextPaths == GetPaths

SpecPaths == InitPaths /\ [][NextPaths]_vars

\* ------------------------------------------------------------------ window claims

Properties == {"always_on_top", "decorations", "shadow", "size", "position"}

\* The value a payload requests for the property of its command.
Requested(op, payload) ==
    IF op \in {"window_resize", "window_move"} THEN payload.value ELSE payload.value[1]

\* A step is a window command exactly when it leaves a command in `last`.
CommandStep == last'.op \in WindowOps

\* C1: a window command whose label (or the default "main") is not in the
\* registry returns an error naming that label and changes no window.
C1_MissingWindowFails ==
    [][(CommandStep /\ windows[Target(last'.label)] = Absent)
         => /\ last'.res = Err(<<"window '", Target(last'.label), "' not found">>)
            /\ windows' = windows]_vars

\* The default label was looked up, "main" was closed, and the command failed.
C1_Witness ==
    /\ last.op = "window_resize"
    /\ last.label = None
    /\ last.res = Err(<<"window '", "main", "' not found">>)
    /\ windows["main"] = Absent
    /\ windows["aux"] # Absent

\* C2: from any registry state, two successful commands for different properties
\* of one window give the same registry in either order, and in it each of the
\* two properties has the value requested for it.  The commands read only
\* windows and toolkitUp, and every reachable pair of these also occurs with no
\* command in `last` (the toolkit flips twice), so the pairs are tried there.
C2_Commutative ==
    last.op = "none" =>
      \A a \in WindowOps, b \in WindowOps :
        a # b =>
          \A pa \in Payloads(a), pb \in Payloads(b) :
            Target(pa.label) = Target(pb.label) =>
              LET t == Target(pa.label)
                  ra == Invoke(a, windows, pa, toolkitUp)
                  rab == Invoke(b, ra.ws, pb, toolkitUp)
                  rb == Invoke(b, windows, pb, toolkitUp)
                  rba == Invoke(a, rb.ws, pa, toolkitUp)
              IN  (IsOk(ra.res) /\ IsOk(rab.res) /\ IsOk(rb.res) /\ IsOk(rba.res)) =>
                    /\ rab.ws = rba.ws
                    /\ rab.ws[t][1][PropertyOf(a)] = Requested(a, pa)
                    /\ rab.ws[t][1][PropertyOf(b)] = Requested(b, pb)

\* window_move succeeded right after a successful window_resize of the same
\* window, and the window has both requested values.
C2_Witness ==
    /\ last.op = "window_move"
    /\ last.prev = "window_resize"
    /\ IsOk(last.res)
    /\ windows[Target(last.label)][1].position = last.value
    /\ windows[Target(last.label)][1].size = <<1024, 768>>

\* C3: the same command with the same payload, applied again right after it
\* succeeded, succeeds again and leaves the registry as the first call left it.
C3_Idempotent ==
    [][(CommandStep /\ last'.prev = "same")
         => (IsOk(last'.res) /\ windows' = windows)]_vars

C3_Witness ==
    /\ last.op = "window_set_always_on_top"
    /\ last.prev = "same"
    /\ IsOk(last.res)
    /\ windows[Target(last.label)][1].always_on_top = last.value[1]

\* C10: a window command leaves the set of registered labels, every other
\* window and the other four properties of its target as they were, whether it
\* succeeds or fails.
C10_Frame ==
    [][CommandStep =>
         LET t == Target(last'.label)
             p == PropertyOf(last'.op)
         IN  \A l \in Labels :
               /\ (windows'[l] = Absent) <=> (windows[l] = Absent)
               /\ l # t => windows'[l] = windows[l]
               /\ (l = t /\ windows[l] # Absent) =>
                     \A q \in Properties \ {p} : windows'[l][1][q] = windows[l][1][q]]_vars

\* A command changed its property on one window while another window was open.
C10_Witness ==
    /\ last.op = "window_set_decorations"
    /\ IsOk(last.res)
    /\ last.label = Some("aux")
    /\ windows["main"] # Absent
    /\ windows["aux"] # Absent
    /\ windows["aux"][1].decorations # windows["main"][1].decorations

\* ------------------------------------------------------------------ process claims

RunCalls == {i \in DOMAIN calls : calls[i].kind = "run"}
SpawnCalls == {i \in DOMAIN calls : calls[i].kind = "spawn"}
Launched(c) == c.child # "none"
Returned(c) == c.result # None

C5_SpawnFireAndForget ==
    [][/\ \A i \in DOMAIN calls' :
            calls'[i].kind = "spawn" =>
              /\ Returned(calls'[i])
              /\ Launched(calls'[i]) <=> (calls'[i].result = Some(Ok(Unit)))
       /\ \A i \in SpawnCalls : calls'[i].result = calls[i].result]_vars

\* spawn returned success; one child is still running, another exited with a
\* failure code after the call.
C5_Witness ==
    \E i \in SpawnCalls, j \in SpawnCalls :
      /\ calls[i].child = "running" /\ calls[i].result = Some(Ok(Unit))
      /\ calls[j].child = "exited" /\ calls[j].exit[1].code = Some(3)
      /\ calls[j].result = Some(Ok(Unit))

\* The result of a run that returned after its child exited, and that child's status.
Completed == {i \in RunCalls : calls[i].child = "exited" /\ Returned(calls[i])}
StatusOf(i) == calls[i].result[1][2].status
OsCode(i) == calls[i].exit[1].code

\* C6 as claimed: the status is the child's code when the OS reports one, and is
\* -1 exactly when the OS reports none; an unknown status is never 0.
C6_MinusOneExactlyWhenUnknown ==
    \A i \in Completed :
      /\ OsCode(i) # None => StatusOf(i) = OsCode(i)[1]
      /\ (StatusOf(i) = -1) <=> (OsCode(i) = None)
      /\ OsCode(i) = None => StatusOf(i) # 0

\* C6, amended: the status is the child's code when the OS reports one and -1
\* when it reports none, never 0 then; a status of -1 means "no code reported"
\* on every build but Windows, where a child can itself exit with code -1.
C6_ExitCodeSentinel ==
    \A i \in Completed :
      /\ OsCode(i) # None => StatusOf(i) = OsCode(i)[1]
      /\ OsCode(i) = None => (StatusOf(i) = -1 /\ StatusOf(i) # 0)
      /\ (build # "Windows" /\ StatusOf(i) = -1) => OsCode(i) = None

\* A child killed by a signal was reported with status -1.
C6_Witness ==
    \E i \in Completed : OsCode(i) = None /\ StatusOf(i) = -1 /\ build = "Linux"

\* C7: when the interpreter cannot be started, run returns the launch error and
\* no RunOutput is produced.
C7_LaunchFailureIsError ==
    \A i \in RunCalls :
      ~Launched(calls[i]) =>
        /\ calls[i].result = Some(Err(io_error_to_string(OsError(build))))
        /\ calls[i].produced = 0
        /\ calls[i].exit = None

C7_Witness ==
    \E i \in RunCalls : ~Launched(calls[i]) /\ IsErr(calls[i].result[1])

\* What the core has done so far, as its callers see it.
CoreView == <<windows, last, paths, Len(calls), [i \in DOMAIN calls |-> calls[i].result]>>

AppendsOneSegment(base, identifier, result) ==
    /\ Segments(result) = Append(Segments(base[1]), identifier)
    /\ is_absolute(result) = is_absolute(base[1])

Resolved == paths # None /\ IsOk(paths[1])

\* C8 as claimed: for every identifier, also one holding or starting with a
\* separator, both directories are their base with the identifier appended as
\* a single segment.
C8_AppendsAnyIdentifier ==
    Resolved =>
      /\ AppendsOneSegment(env.config_dir, env.identifier, paths[1][2].config_dir)
      /\ AppendsOneSegment(env.data_dir, env.identifier, paths[1][2].data_dir)

\* An identifier that is one path segment: not empty, no separator, not ".".
SingleSegment(identifier) ==
    /\ identifier # <<>>
    /\ \A k \in 1..Len(identifier) : identifier[k] # "/"
    /\ identifier # <<".">>

\* C8, amended: for every identifier that is a single path segment, both
\* directories are their base with the identifier appended as a single segment.
C8_AppendsSingleSegment ==
    (Resolved /\ SingleSegment(env.identifier)) =>
      /\ AppendsOneSegment(env.config_dir, env.identifier, paths[1][2].config_dir)
      /\ AppendsOneSegment(env.data_dir, env.identifier, paths[1][2].data_dir)

\* get_paths resolved a dotted identifier under a base that ends with a separator.
C8_Witness ==
    /\ Resolved
    /\ env.identifier = <<"a", ".", "a">>
    /\ env.config_dir = Some(<<"/", "h", "/", "c", "/">>)
    /\ paths[1][2].config_dir = <<"/", "h", "/", "c", "/", "a", ".", "a">>
    /\ paths[1][2].data_dir = <<"/", "h", "/", "d", "/", "a", ".", "a">>

====
